---- MODULE Spec2Model ----
(***************************************************************************)
(* Model of the irrigation controller `water` (src/src/main.rs).           *)
(*                                                                         *)
(* The process is sequential: main() binds one pin per configured pump,    *)
(* then enters run() (the daily scheduling loop) or test() (one manual     *)
(* pulse).  The variable pc is the position of that single thread; one     *)
(* action is one stretch of code between two blocking calls (a sleep, a    *)
(* hardware write).  All times are in milliseconds, the unit of the        *)
(* Duration::from_millis constants of run(); instants are milliseconds     *)
(* since 00:00:00 UTC of day 0.                                            *)
(*                                                                         *)
(* The environment (wall clock, GPIO lines) is the variable env, fixed by  *)
(* the initial state: the set of errors a sleep may show on the wall       *)
(* clock, whether hardware calls may fail, and the window of clock values  *)
(* explored.                                                               *)
(***************************************************************************)
EXTENDS Integers, Sequences, FiniteSets, TLC

VARIABLES
    env,                 \* the environment: clock errors, faults, clock window
    mode,                \* args.command: "run" or "test"
    test_args,           \* TestArgs {pump, secs}
    watering_time,       \* the configured time of day (ms since midnight)
    config,              \* config.pumps in iteration (name) order
    pumps,               \* the Vec<Pump> main() builds
    pc,                  \* position of the thread
    result,              \* what main() returned: "none", "ok", "err"
    now,                 \* the wall clock (OffsetDateTime::now_utc())
    t,                   \* run(): last accepted clock reading
    watering_date_time,  \* run(): the trigger
    idx,                 \* the pump being watered / tested (index in pumps)
    duration,            \* the Duration of the pulse in progress
    level,               \* physical level of each pump's GPIO line
    trace,               \* history of the cycle (or test) in progress
    lastT                \* history: trigger of the last cycle started, 0 if none

vars == <<env, mode, test_args, watering_time, config, pumps, pc, result, now,
          t, watering_date_time, idx, duration, level, trace, lastT>>

-----------------------------------------------------------------------------
(* Program constants *)

sleep_duration == 1000
delta_t == 10000
pause_duration == 1000
MsPerDay == 86400000
MinSecs == 0
MaxSecs == 30
DEFAULT_TEST_SECS == 1
DefaultStartTime == 27000000

(* Bounds of the exploration *)

\* how far before the first trigger the clock window starts (ms)
Back == 3700000
\* how far after the last trigger of the window the clock may get (ms)
Horizon == 200000
\* largest daily volume (mL) and flow rate (mL/s) drawn in SpecInputs
MaxMl == 64
MaxRate == 2

-----------------------------------------------------------------------------
(* Values *)

\* an f64 number of seconds, kept exact as a fraction num/den; den = 0 is
\* the result of a division by zero (an infinity or NaN)
Secs(n, d) == [num |-> n, den |-> d]

None == <<>>
Some(x) == <<x>>
unwrap_or_default(opt, d) == IF opt = None THEN Secs(0, 1) ELSE opt[1]
unwrap_or(opt, d) == IF opt = None THEN d ELSE opt[1]

Abs(x) == IF x < 0 THEN -x ELSE x

\* one entry of the history
Ev(e, p, v) == [ev |-> e, p |-> p, v |-> v]

\* day 1, 00:00:00
Base == MsPerDay

\* the pumps of the scheduling specifications, in name order
PumpCfg ==
    << [name |-> "A", enable |-> TRUE,  ml_per_s |-> 10, ml_per_day |-> 200],
       [name |-> "B", enable |-> FALSE, ml_per_s |-> 5,  ml_per_day |-> 150],
       [name |-> "C", enable |-> TRUE,  ml_per_s |-> 5,  ml_per_day |-> 0],
       [name |-> "D", enable |-> TRUE,  ml_per_s |-> 10, ml_per_day |-> 310] >>

\* errors of the wall clock over one sleep (ms): none, within the tolerance,
\* just beyond it in both directions, and the clock set back by one hour
ClockErrs == {-3600000, -11000, -10000, 0, 10000, 11000}

\* the errors among them that set the clock back by at most the tolerance
DriftErrs == {e \in ClockErrs : e >= -delta_t}

TestNames == {"A", "B", "D", "unknown"}
TestSecs == {None, Some(Secs(5, 1)), Some(Secs(0, 1)), Some(Secs(30, 1)),
             Some(Secs(-1, 1)), Some(Secs(31, 1)), Some(Secs(5, 2)),
             Some(Secs(-1, 1000)), Some(Secs(30001, 1000))}

-----------------------------------------------------------------------------
(* Pure functions *)

\* OffsetDateTime::replace_time: same date, given time of day
replace_time(x, tod) == (x \div MsPerDay) * MsPerDay + tod

\* run(), lines 181-185: the trigger for a clock reading x
NextTriggerLate(x, tod) ==
    LET c == replace_time(x, tod) IN IF x > c THEN c + MsPerDay ELSE c

NextTrigger(x, tod) ==
    LET c == replace_time(x, tod) IN IF x >= c THEN c + MsPerDay ELSE c

\* Pump::pump_for_secs, line 127: 0.0 <= secs && secs <= 30.0 on an f64
InRangeNoMax(secs) ==
    IF secs.den = 0 THEN FALSE
    ELSE IF secs.den > 0 THEN MinSecs * secs.den <= secs.num
    ELSE secs.num <= MinSecs * secs.den

InRangeExclusive(secs) ==
    IF secs.den = 0 THEN FALSE
    ELSE IF secs.den > 0
         THEN MinSecs * secs.den < secs.num /\ secs.num < MaxSecs * secs.den
         ELSE secs.num < MinSecs * secs.den /\ secs.num > MaxSecs * secs.den

InRange(secs) ==
    IF secs.den = 0 THEN FALSE
    ELSE IF secs.den > 0
         THEN MinSecs * secs.den <= secs.num /\ secs.num <= MaxSecs * secs.den
         ELSE secs.num <= MinSecs * secs.den /\ secs.num >= MaxSecs * secs.den

\* Duration::from_secs_f64, in whole ms (the resolution of the model's clock)
from_secs_f64(secs) == (secs.num * 1000) \div secs.den

\* Pump::water, line 140
water_secs_inverted(p) == Secs(p.ml_per_s, p.ml_per_day)

water_secs(p) == Secs(p.ml_per_day, p.ml_per_s)

\* the hardware outcomes of one call
Outcomes == IF env.faults THEN {TRUE, FALSE} ELSE {TRUE}

\* the wall clock after a sleep of d ms
ClockAfter(d) == {x \in {now + d + e : e \in env.errs} : env.lo <= x /\ x <= env.hi}

-----------------------------------------------------------------------------
(* Initial states *)

\* the state after construction, for an environment e, the pump
\* configuration cfg, the start time tod and the clock readings at startup
InitState(e, cfg, tod, starts) ==
    /\ env = e
    /\ config = cfg
    /\ watering_time = tod
    /\ \/ /\ mode = "run"
          /\ test_args = [pump |-> "A", secs |-> None]
          /\ now \in starts
       \/ /\ mode = "test"
          /\ test_args \in [pump : TestNames, secs : TestSecs]
          /\ now = Base + tod
    /\ pumps = <<>>
    /\ pc = "startup"
    /\ result = "none"
    /\ t = 0
    /\ watering_date_time = 0
    /\ idx = 0
    /\ duration = 0
    /\ level = [i \in 1..Len(cfg) |-> 0]
    /\ trace = <<>>
    /\ lastT = 0

\* the clock values explored: from Back before the first trigger to Horizon
\* after the trigger `last`
Window(tod, last) == [lo |-> Base + tod - Back, hi |-> last + Horizon]

\* Spec: the clock may jump, hardware calls may fail
Init ==
    InitState([errs |-> ClockErrs, faults |-> TRUE]
                  @@ Window(DefaultStartTime, Base + DefaultStartTime),
              PumpCfg, DefaultStartTime,
              {Base + DefaultStartTime - 2000, Base + DefaultStartTime})

\* SpecSteady: the clock advances by exactly the time slept and the hardware
\* works, from just before one trigger until after the trigger of the next day
InitSteady ==
    InitState([errs |-> {0}, faults |-> FALSE]
                  @@ Window(DefaultStartTime, Base + DefaultStartTime + MsPerDay),
              PumpCfg, DefaultStartTime,
              {Base + DefaultStartTime - 2500, Base + DefaultStartTime})

\* start times at midnight, 07:30:00 and 23:59:59
StartTimes == {0, DefaultStartTime, MsPerDay - 1000}

\* SpecClock: the clock may jump at every sleep, for each of the start times
\* (the window of two of them spans midnight); the hardware works
InitClock ==
    \E tod \in StartTimes :
        InitState([errs |-> ClockErrs, faults |-> FALSE] @@ Window(tod, Base + tod),
                  PumpCfg, tod, {Base + tod - 2000, Base + tod})

\* SpecDrift: as Spec, but the clock is never set back by more than the
\* tolerance over one sleep, and the hardware works
InitDrift ==
    InitState([errs |-> DriftErrs, faults |-> FALSE]
                  @@ Window(DefaultStartTime, Base + DefaultStartTime),
              PumpCfg, DefaultStartTime,
              {Base + DefaultStartTime - 2000, Base + DefaultStartTime})

\* SpecInputs: one pump with every volume and flow rate up to the bounds
\* (a rate of 0 included), each of the start times, the program started
\* just before, at and just after the start time; the clock is steady and
\* the hardware may fail

DoseCfgs ==
    { << [name |-> "A", enable |-> TRUE, ml_per_s |-> r, ml_per_day |-> m] >> :
        r \in 0..MaxRate, m \in 0..MaxMl }

InitInputs ==
    \E tod \in StartTimes, cfg \in DoseCfgs :
        InitState([errs |-> {0}, faults |-> TRUE] @@ Window(tod, Base + tod),
                  cfg, tod, {Base + tod - 1000, Base + tod, Base + tod + 1000})

-----------------------------------------------------------------------------
(* main(): startup *)

\* lines 349-354: find_pin and Pump::new for the next configured pump; an
\* error of find_pin is the result of main()
BindPinLenient ==
    /\ pc = "startup"
    /\ Len(pumps) < Len(config)
    /\ \E ok \in Outcomes :
         /\ pumps' = Append(pumps, [config[Len(pumps) + 1] EXCEPT !.enable = @ /\ ok])
         /\ trace' = IF ok THEN trace
                     ELSE Append(trace, Ev("bind_err", Len(pumps) + 1, 0))
    /\ UNCHANGED <<env, mode, test_args, watering_time, config, pc, result, now,
                   t, watering_date_time, idx, duration, level, lastT>>

BindPin ==
    /\ pc = "startup"
    /\ Len(pumps) < Len(config)
    /\ \E ok \in Outcomes :
         IF ok
         THEN /\ pumps' = Append(pumps, config[Len(pumps) + 1])
              /\ UNCHANGED <<pc, result, trace>>
         ELSE /\ pc' = "exit"
              /\ result' = "err"
              /\ trace' = Append(trace, Ev("bind_err", Len(pumps) + 1, 0))
              /\ UNCHANGED pumps
    /\ UNCHANGED <<env, mode, test_args, watering_time, config, now, t,
                   watering_date_time, idx, duration, level, lastT>>

\* lines 356-359
Dispatch ==
    /\ pc = "startup"
    /\ Len(pumps) = Len(config)
    /\ pc' = IF mode = "run" THEN "compute" ELSE "test"
    /\ UNCHANGED <<env, mode, test_args, watering_time, config, pumps, result,
                   now, t, watering_date_time, idx, duration, level, trace, lastT>>

-----------------------------------------------------------------------------
(* run() *)

\* lines 181-186
ComputeTrigger ==
    /\ pc = "compute"
    /\ t' = now
    /\ watering_date_time' = NextTrigger(now, watering_time)
    /\ pc' = "waiting"
    /\ UNCHANGED <<env, mode, test_args, watering_time, config, pumps, result,
                   now, idx, duration, level, trace, lastT>>

\* line 194
JumpedForward(e) == e > delta_t

JumpedInclusive(e) == Abs(e) >= delta_t

JumpedBackward(e) == e < -delta_t

Jumped(e) == Abs(e) > delta_t

\* lines 187-199: one iteration of the wait loop
WaitStep ==
    /\ pc = "waiting"
    /\ t < watering_date_time
    /\ \E new_t \in ClockAfter(sleep_duration) :
         LET e == new_t - (t + sleep_duration) IN
         /\ now' = new_t
         /\ IF Jumped(e)
            THEN pc' = "compute" /\ UNCHANGED t
            ELSE t' = new_t /\ UNCHANGED pc
    /\ UNCHANGED <<env, mode, test_args, watering_time, config, pumps, result,
                   watering_date_time, idx, duration, level, trace, lastT>>

\* lines 187, 201-205: the wait loop ends, the cycle begins
StartWatering ==
    /\ pc = "waiting"
    /\ ~(t < watering_date_time)
    /\ pc' = "water"
    /\ idx' = 1
    /\ trace' = <<>>
    /\ lastT' = watering_date_time
    /\ UNCHANGED <<env, mode, test_args, watering_time, config, pumps, result,
                   now, t, watering_date_time, duration, level>>

-----------------------------------------------------------------------------
(* Pump and Pin *)

\* What the caller does with the result of water() / pump_for_secs():
\* run() lines 206-209 logs an error and goes on to the pause; test() line
\* 234 and main() lines 356-359 return it as the result of the process.
ReturnAbort(ok, tr) ==
    IF mode = "run" /\ ok
    THEN /\ trace' = tr
         /\ pc' = "pause"
         /\ UNCHANGED result
    ELSE /\ trace' = tr
         /\ pc' = "exit"
         /\ result' = IF ok THEN "ok" ELSE "err"

Return(ok, tr) ==
    IF mode = "run"
    THEN /\ trace' = IF ok THEN tr ELSE Append(tr, Ev("warn_fail", idx, 0))
         /\ pc' = "pause"
         /\ UNCHANGED result
    ELSE /\ trace' = tr
         /\ pc' = "exit"
         /\ result' = IF ok THEN "ok" ELSE "err"

\* Pump::pump_for_secs, lines 125-135, up to the first write of the pulse
pump_for_secs(p, secs, tr) ==
    IF InRange(secs)
    THEN /\ duration' = from_secs_f64(secs)
         /\ pc' = "set_high"
         /\ trace' = tr
         /\ UNCHANGED result
    ELSE /\ Return(TRUE, Append(tr, Ev("warn_range", p, 0)))
         /\ UNCHANGED duration

\* Pin::set_value_raw, lines 74-79: the outcomes of a write on pump i's pin;
\* a pin without a handle accepts the write and does nothing
WriteOutcomes(i) == IF pumps[i].enable THEN Outcomes ELSE {TRUE}

\* the line levels after a write of v on pump i's pin with outcome ok; a
\* failed write leaves the line as it was
WriteIgnoreEnable(i, v, ok) ==
    IF ok THEN [level EXCEPT ![i] = v] ELSE level

Write(i, v, ok) ==
    IF pumps[i].enable /\ ok THEN [level EXCEPT ![i] = v] ELSE level

\* run() lines 205-206 with Pump::water, lines 136-144
WaterPumpConsuming ==
    /\ pc = "water"
    /\ idx <= Len(pumps)
    /\ pump_for_secs(idx, water_secs(pumps[idx]), Append(trace, Ev("water", idx, 0)))
    /\ pumps' = [pumps EXCEPT ![idx].ml_per_day = 0]
    /\ UNCHANGED <<env, mode, test_args, watering_time, config, now, t,
                   watering_date_time, idx, level, lastT>>

WaterPump ==
    /\ pc = "water"
    /\ idx <= Len(pumps)
    /\ pump_for_secs(idx, water_secs(pumps[idx]), Append(trace, Ev("water", idx, 0)))
    /\ UNCHANGED <<env, mode, test_args, watering_time, config, pumps, now, t,
                   watering_date_time, idx, level, lastT>>

\* Pin::create_pulse line 81
SetHigh ==
    /\ pc = "set_high"
    /\ \E ok \in WriteOutcomes(idx) :
         /\ level' = Write(idx, 1, ok)
         /\ IF ok
            THEN /\ trace' = Append(trace, Ev("set", idx, 1))
                 /\ pc' = "hold"
                 /\ UNCHANGED result
            ELSE Return(FALSE, Append(trace, Ev("set_err", idx, 1)))
    /\ UNCHANGED <<env, mode, test_args, watering_time, config, pumps, now, t,
                   watering_date_time, idx, duration, lastT>>

\* Pin::create_pulse line 82
Hold ==
    /\ pc = "hold"
    /\ now' \in ClockAfter(duration)
    /\ trace' = Append(trace, Ev("sleep", idx, duration))
    /\ pc' = "set_low"
    /\ UNCHANGED <<env, mode, test_args, watering_time, config, pumps, result,
                   t, watering_date_time, idx, duration, level, lastT>>

\* Pin::create_pulse lines 83-84 and the returns up to the caller
SetLowSkipped ==
    /\ pc = "set_low"
    /\ Return(TRUE, Append(trace, Ev("set", idx, 0)))
    /\ UNCHANGED <<env, mode, test_args, watering_time, config, pumps, now, t,
                   watering_date_time, idx, duration, level, lastT>>

SetLow ==
    /\ pc = "set_low"
    /\ \E ok \in WriteOutcomes(idx) :
         /\ level' = Write(idx, 0, ok)
         /\ Return(ok, Append(trace, Ev(IF ok THEN "set" ELSE "set_err", idx, 0)))
    /\ UNCHANGED <<env, mode, test_args, watering_time, config, pumps, now, t,
                   watering_date_time, idx, duration, lastT>>

\* run() line 209 and the step to the next pump
PauseSkipLast ==
    /\ pc = "pause"
    /\ IF idx < Len(pumps)
       THEN /\ now' \in ClockAfter(pause_duration)
            /\ trace' = Append(trace, Ev("pause", idx, pause_duration))
       ELSE UNCHANGED <<now, trace>>
    /\ idx' = idx + 1
    /\ pc' = "water"
    /\ UNCHANGED <<env, mode, test_args, watering_time, config, pumps, result,
                   t, watering_date_time, duration, level, lastT>>

Pause ==
    /\ pc = "pause"
    /\ now' \in ClockAfter(pause_duration)
    /\ trace' = Append(trace, Ev("pause", idx, pause_duration))
    /\ idx' = idx + 1
    /\ pc' = "water"
    /\ UNCHANGED <<env, mode, test_args, watering_time, config, pumps, result,
                   t, watering_date_time, duration, level, lastT>>

\* run() lines 210-215: the for loop is over, back to the top of 'outer
FinishWateringReturn ==
    /\ pc = "water"
    /\ idx > Len(pumps)
    /\ pc' = "exit"
    /\ result' = "ok"
    /\ idx' = 0
    /\ trace' = <<>>
    /\ UNCHANGED <<env, mode, test_args, watering_time, config, pumps, now, t,
                   watering_date_time, duration, level, lastT>>

FinishWatering ==
    /\ pc = "water"
    /\ idx > Len(pumps)
    /\ pc' = "compute"
    /\ idx' = 0
    /\ trace' = <<>>
    /\ UNCHANGED <<env, mode, test_args, watering_time, config, pumps, result,
                   now, t, watering_date_time, duration, level, lastT>>

-----------------------------------------------------------------------------
(* test() *)

\* line 231: pumps.iter().find(..), the indexes of the pumps with that name
FoundFirst(name) == {i \in 1..Len(pumps) : i = 1}

Found(name) == {i \in 1..Len(pumps) : pumps[i].name = name}

First(S) == CHOOSE i \in S : \A j \in S : i <= j

\* lines 229-240
TestPump ==
    /\ pc = "test"
    /\ IF Found(test_args.pump) # {}
       THEN /\ idx' = First(Found(test_args.pump))
            /\ pump_for_secs(idx', unwrap_or(test_args.secs, Secs(DEFAULT_TEST_SECS, 1)),
                             trace)
       ELSE /\ pc' = "exit"
            /\ result' = "err"
            /\ trace' = Append(trace, Ev("error_not_found", 0, 0))
            /\ UNCHANGED <<idx, duration>>
    /\ UNCHANGED <<env, mode, test_args, watering_time, config, pumps, now, t,
                   watering_date_time, level, lastT>>

-----------------------------------------------------------------------------
(* Specifications *)

Next ==
    \/ BindPin
    \/ Dispatch
    \/ ComputeTrigger
    \/ WaitStep
    \/ StartWatering
    \/ WaterPump
    \/ SetHigh
    \/ Hold
    \/ SetLow
    \/ Pause
    \/ FinishWatering
    \/ TestPump

Spec == Init /\ [][Next]_vars

SpecSteady == InitSteady /\ [][Next]_vars

SpecInputs == InitInputs /\ [][Next]_vars

SpecClock == InitClock /\ [][Next]_vars

SpecDrift == InitDrift /\ [][Next]_vars

-----------------------------------------------------------------------------
(* Properties *)

\* the positions of run() inside a watering cycle
CyclePcs == {"water", "set_high", "hold", "set_low", "pause"}

\* the for loop of a cycle has run to its end
CycleDone == mode = "run" /\ pc = "water" /\ idx > Len(pumps)

\* the time of day and the date (day number) of an instant
time_of(x) == x % MsPerDay
date_of(x) == x \div MsPerDay

\* main() got past the binding of the pins
Started == pc \notin {"startup", "exit"} \/ (pc = "exit" /\ Len(pumps) = Len(config))

\* C1: the trigger computed at the top of the outer loop from the clock
\* reading `now` is later than now, has the configured time of day, and is
\* on now's date if the start time is later than now's time of day, on the
\* next date otherwise (a start time equal to now's time of day included).
C1_NextTrigger ==
    [][pc = "compute" =>
         /\ watering_date_time' > now
         /\ time_of(watering_date_time') = watering_time
         /\ date_of(watering_date_time') =
               IF watering_time > time_of(now) THEN date_of(now) ELSE date_of(now) + 1
         /\ t' = now]_vars

\* the clock read midnight, which is the start time: the trigger is midnight
\* of the next day
C1_Witness ==
    /\ pc = "waiting"
    /\ watering_time = 0
    /\ time_of(t) = watering_time
    /\ watering_date_time = t + MsPerDay
    /\ lastT = 0

\* a pump of C2: a positive flow rate, a target that needs more than 30 s
OutOfRangePump(p) ==
    p.ml_per_s > 0 /\ p.ml_per_day >= 0 /\ p.ml_per_day > MaxSecs * p.ml_per_s

\* C2: for a pump with flow rate > 0 and daily target >= 0 whose required
\* seconds lie outside [0, 30], water() writes neither 1 nor 0 to the pin
\* (the line stays low), records the out-of-range warning and returns
\* success: the scheduler logs no failure and goes on to the pause.
C2_OutOfRangeSkipped ==
    mode = "run" =>
        \A i \in 1..Len(pumps) :
            OutOfRangePump(pumps[i]) =>
                /\ level[i] = 0
                /\ \A k \in 1..Len(trace) :
                     trace[k].p = i =>
                        /\ trace[k].ev \in {"water", "warn_range", "pause"}
                        /\ trace[k].ev = "water" =>
                              /\ k < Len(trace)
                              /\ trace[k + 1] = Ev("warn_range", i, 0)
                /\ (idx = i /\ pc \in CyclePcs) => pc \in {"water", "pause"}
                /\ pc = "exit" => Len(pumps) < Len(config)

\* water() has just returned for a pump that needs 31 s
C2_Witness ==
    /\ mode = "run"
    /\ pc = "pause"
    /\ idx = 1
    /\ OutOfRangePump(pumps[1])
    /\ pumps[1].ml_per_day = 31
    /\ trace = <<Ev("water", 1, 0), Ev("warn_range", 1, 0)>>

\* C3: in run mode at most one pump's line is at level 1 in every state.
C3_AtMostOneHigh ==
    mode = "run" => Cardinality({i \in DOMAIN level : level[i] = 1}) <= 1

\* the history of a cycle restricted to the calls of water()
IsWater(e) == e.ev = "water"
WaterCalls == SelectSeq(trace, IsWater)

\* C4: when water() fails for pump i the scheduler logs the failure, does
\* not call water() on pump i again in that cycle, calls it exactly once on
\* each later pump, and goes back to computing the next trigger; run() never
\* returns because of an actuation error.
C4_ErrorIsolation ==
    [][mode = "run" =>
         /\ (pc' = "exit" => Len(pumps') < Len(config))
         /\ pc' \in CyclePcs =>
               /\ Len(WaterCalls') = IF pc' = "water" THEN idx' - 1 ELSE idx'
               /\ \A k \in 1..Len(WaterCalls') : WaterCalls'[k].p = k
               /\ \A k \in 1..Len(trace') :
                     trace'[k].ev = "set_err" =>
                        /\ k < Len(trace')
                        /\ trace'[k + 1] = Ev("warn_fail", trace'[k].p, 0)
                        /\ \A j \in (k + 2)..Len(trace') :
                              trace'[j].p = trace'[k].p => trace'[j].ev = "pause"
         /\ CycleDone => pc' = "compute"]_vars

\* the first pump failed, the cycle went on and water() ran on every pump
C4_Witness ==
    /\ CycleDone
    /\ Len(WaterCalls) = Len(pumps)
    /\ \E k \in 1..Len(trace) : trace[k] = Ev("warn_fail", 1, 0)

\* C5: when the clock is set back by one hour between two readings of the
\* wait loop, the scheduler goes back to computing the trigger without any
\* pin activity; the trigger is then computed from the clock reading after
\* the jump and is the first start time after it (at most one day ahead);
\* a cycle starts only when the clock reading has reached the trigger.
C5_BackwardJump ==
    [][/\ (pc = "waiting" /\ now' = t + sleep_duration - 3600000) =>
             /\ pc' = "compute"
             /\ level' = level
             /\ trace' = trace
             /\ lastT' = lastT
       /\ pc = "compute" =>
             /\ t' = now
             /\ now' = now
             /\ now < watering_date_time'
             /\ watering_date_time' <= now + MsPerDay
             /\ time_of(watering_date_time') = watering_time
       /\ (pc = "waiting" /\ pc' = "water") =>
             /\ now >= watering_date_time
             /\ t >= watering_date_time]_vars

\* the clock was set back by an hour and the scheduler is about to recompute
C5_Witness ==
    /\ pc = "compute"
    /\ now = t + sleep_duration - 3600000
    /\ watering_date_time > now

\* C6: when the clock jumps forward past the trigger while the scheduler
\* waits, the cycle of that trigger is still run: the trigger is replaced
\* by a later one only after the cycle for it has started.
C6_NoSilentSkip ==
    [][(pc = "compute" /\ watering_date_time # 0
          /\ watering_date_time' > watering_date_time)
         => lastT = watering_date_time]_vars

\* a pump whose required seconds are within [0, 30]
InRangePump(p) ==
    p.ml_per_s > 0 /\ 0 <= p.ml_per_day /\ p.ml_per_day <= MaxSecs * p.ml_per_s

\* the pulses of pump i in the history: the sleeps between its two writes
Holds(i) == {k \in 1..Len(trace) : trace[k].ev = "sleep" /\ trace[k].p = i}

\* C7: with a clock that advances without jumps, a cycle starts at the first
\* reading of the clock (they are 1 s apart) that has reached the start time
\* S of a day, the cycles are one
\* day apart with none left out (the first trigger is the first S after the
\* start of the program, the trigger after a cycle is S of the next day),
\* and at the end of a cycle each pump whose duration is in range has been
\* pulsed exactly once for dailyTarget / flowRate seconds (200 mL at 10 mL/s:
\* 20 s) and every other pump not at all.
C7_OncePerDay ==
    [][mode = "run" =>
         /\ (pc = "waiting" /\ pc' = "water") =>
               /\ watering_date_time <= t
               /\ t < watering_date_time + sleep_duration
               /\ now = t
               /\ time_of(watering_date_time) = watering_time
               /\ lastT # 0 => watering_date_time = lastT + MsPerDay
         /\ pc = "compute" =>
               /\ time_of(watering_date_time') = watering_time
               /\ now < watering_date_time'
               /\ watering_date_time' <= now + MsPerDay
               /\ lastT # 0 => watering_date_time' = lastT + MsPerDay
         /\ CycleDone =>
               \A i \in 1..Len(pumps) :
                  IF InRangePump(pumps[i])
                  THEN /\ Cardinality(Holds(i)) = 1
                       /\ \A k \in Holds(i) :
                            /\ trace[k].v * pumps[i].ml_per_s
                                  = pumps[i].ml_per_day * 1000
                            /\ trace[k - 1] = Ev("set", i, 1)
                            /\ trace[k + 1] = Ev("set", i, 0)
                  ELSE Holds(i) = {}]_vars

\* the cycle of the second day is over; pump A got its one pulse of 20 s
C7_Witness ==
    /\ CycleDone
    /\ lastT = Base + watering_time + MsPerDay
    /\ \E k \in Holds(1) : trace[k].v = 20000

\* the events of the history that are writes to a pin
Writes == {k \in 1..Len(trace) : trace[k].ev \in {"set", "set_err"}}

\* the name given to test() is the name of a configured pump
NameExists == \E i \in 1..Len(config) : config[i].name = test_args.pump

\* the pump with the name given to test()
Named == CHOOSE i \in 1..Len(config) : config[i].name = test_args.pump

\* C8: test() with the name of a configured pump and a duration within
\* [0, 30] makes exactly one pulse of that duration on that pump's pin (write
\* 1, hold, write 0) and returns success, unless a write fails, and nothing
\* on any other pin; with a name that matches no pump it returns an error
\* (PumpNotFoundError, non-zero exit) and writes no pin.
C8_TestMode ==
    (mode = "test" /\ Started) =>
        IF NameExists
        THEN /\ \A k \in 1..Len(trace) : trace[k].p = Named
             /\ \A j \in DOMAIN level : j # Named => level[j] = 0
             /\ (pc = "exit" /\ test_args.secs # None
                   /\ test_args.secs[1].den = 1
                   /\ 0 <= test_args.secs[1].num /\ test_args.secs[1].num <= 30) =>
                   \/ /\ result = "ok"
                      /\ trace = << Ev("set", Named, 1),
                                    Ev("sleep", Named, test_args.secs[1].num * 1000),
                                    Ev("set", Named, 0) >>
                   \/ /\ result = "err"
                      /\ trace[Len(trace)].ev = "set_err"
        ELSE /\ Writes = {}
             /\ \A j \in DOMAIN level : level[j] = 0
             /\ pc = "exit" => result = "err"
             /\ pc \in {"test", "exit"}

\* test A 5: one pulse of 5 s on pump A was made
C8_Witness ==
    /\ mode = "test"
    /\ pc = "exit"
    /\ result = "ok"
    /\ test_args = [pump |-> "A", secs |-> Some(Secs(5, 1))]
    /\ trace = <<Ev("set", 1, 1), Ev("sleep", 1, 5000), Ev("set", 1, 0)>>

\* the history of pump i, each event by its kind
Tag(e) ==
    IF e.ev = "set" THEN (IF e.v = 1 THEN "high" ELSE "low")
    ELSE IF e.ev = "set_err" THEN (IF e.v = 1 THEN "high_err" ELSE "low_err")
    ELSE e.ev

OfPump(i) ==
    LET evs == SelectSeq(trace, LAMBDA e : e.p = i)
    IN [n \in 1..Len(evs) |-> Tag(evs[n])]

IsPrefix(a, b) == Len(a) <= Len(b) /\ a = SubSeq(b, 1, Len(a))

\* what a cycle does for one pump: a full pulse, a pulse given up at the
\* first or at the second write, or a skip; always followed by the pause
Shapes(i) ==
    IF InRangePump(pumps[i])
    THEN { <<"water", "high", "sleep", "low", "pause">>,
           <<"water", "high_err", "warn_fail", "pause">>,
           <<"water", "high", "sleep", "low_err", "warn_fail", "pause">> }
    ELSE { <<"water", "warn_range", "pause">> }

\* C9: a cycle handles the pumps in configured order, one after the other:
\* for each pump the pulse (write 1, hold, write 0) or what there is of it
\* when the pump fails or is skipped, then the pause of 1 s, also after the
\* last pump; the events of two pumps are never interleaved or reordered,
\* and a cycle in which no write fails is exactly pulse, pause, pulse, pause,
\* ... in that order.
C9_Sequencing ==
    (mode = "run" /\ Started) =>
        /\ pc \notin CyclePcs => trace = <<>>
        /\ \A k \in 1..Len(trace) :
             /\ trace[k].p \in 1..Len(pumps)
             /\ k < Len(trace) => trace[k].p <= trace[k + 1].p
             /\ trace[k].ev = "pause" => trace[k].v = 1000
             /\ trace[k].ev = "sleep" =>
                   trace[k].v * pumps[trace[k].p].ml_per_s
                      = pumps[trace[k].p].ml_per_day * 1000
        /\ pc \in CyclePcs =>
             \A i \in 1..Len(pumps) :
                \E sh \in Shapes(i) :
                   /\ IsPrefix(OfPump(i), sh)
                   /\ i < idx => OfPump(i) = sh
                   /\ i > idx => OfPump(i) = <<>>
                   /\ (i = idx /\ pc = "water") => OfPump(i) = <<>>
                   /\ (i = idx /\ pc = "pause") => Append(OfPump(i), "pause") = sh

\* a whole cycle without failure: A, B and C pulsed in that order, D skipped,
\* a pause after each of the four
C9_Witness ==
    /\ CycleDone
    /\ [k \in 1..Len(trace) |-> <<trace[k].p, Tag(trace[k])>>] =
          << <<1, "water">>, <<1, "high">>, <<1, "sleep">>, <<1, "low">>, <<1, "pause">>,
             <<2, "water">>, <<2, "high">>, <<2, "sleep">>, <<2, "low">>, <<2, "pause">>,
             <<3, "water">>, <<3, "high">>, <<3, "sleep">>, <<3, "low">>, <<3, "pause">>,
             <<4, "water">>, <<4, "warn_range">>, <<4, "pause">> >>

\* C10: when the binding of a pump's pin fails during startup the process
\* ends with that error at once: run() and test() are never entered, no
\* scheduler state is set, no pump is written or pulsed; and run() or test()
\* is entered only with the pins of all configured pumps bound.
C10_StartupFatal ==
    /\ (\E k \in 1..Len(trace) : trace[k].ev = "bind_err") =>
          /\ pc = "exit"
          /\ result = "err"
          /\ Len(trace) = 1
          /\ Len(pumps) < Len(config)
          /\ trace[1].p = Len(pumps) + 1
          /\ t = 0 /\ watering_date_time = 0 /\ lastT = 0 /\ idx = 0
          /\ \A j \in DOMAIN level : level[j] = 0
    /\ pc \notin {"startup", "exit"} => Len(pumps) = Len(config)

\* the pin of the third pump could not be bound
C10_Witness ==
    /\ pc = "exit"
    /\ result = "err"
    /\ Len(pumps) = 2
    /\ trace = <<Ev("bind_err", 3, 0)>>

\* the state of the scheduler (section 4.3) at a position of run()
Phase(p) ==
    IF p = "compute" THEN "ComputingNextTrigger"
    ELSE IF p = "waiting" THEN "Waiting"
    ELSE IF p \in CyclePcs THEN "Watering"
    ELSE "none"

\* C11: once run() is entered the scheduler is always in one of its three
\* states and a next step is always enabled (run() never returns); the
\* state changes only from ComputingNextTrigger to Waiting, from Waiting to
\* Watering when the observed time has reached the trigger, from Waiting to
\* ComputingNextTrigger on a detected clock jump, and from Watering to
\* ComputingNextTrigger.
C11_NoTerminalState ==
    /\ []((mode = "run" /\ Len(pumps) = Len(config) /\ pc # "startup") =>
             /\ Phase(pc) # "none"
             /\ result = "none"
             /\ ENABLED Next)
    /\ [][(mode = "run" /\ Phase(pc) # "none" /\ Phase(pc') # Phase(pc)) =>
             \/ /\ Phase(pc) = "ComputingNextTrigger"
                /\ Phase(pc') = "Waiting"
             \/ /\ Phase(pc) = "Waiting"
                /\ Phase(pc') = "Watering"
                /\ t >= watering_date_time
             \/ /\ Phase(pc) = "Waiting"
                /\ Phase(pc') = "ComputingNextTrigger"
                /\ Abs(now' - (t + sleep_duration)) > delta_t
             \/ /\ Phase(pc) = "Watering"
                /\ Phase(pc') = "ComputingNextTrigger"]_vars

\* a cycle is over and the scheduler waits for the next trigger
C11_Witness ==
    /\ mode = "run"
    /\ pc = "waiting"
    /\ lastT # 0
    /\ t < watering_date_time
    /\ trace = <<>>

\* the writes of level 1 (the starts of pulses) recorded in the trace
PulseStarts ==
    {k \in 1..Len(trace) : trace[k].ev \in {"set", "set_err"} /\ trace[k].v = 1}

\* the sleeps of create_pulse recorded in the trace
PulseSleeps == {k \in 1..Len(trace) : trace[k].ev = "sleep"}

\* C12: pump_for_secs(secs) starts exactly one pulse, of exactly secs
\* seconds, if and only if 0 <= secs <= 30: 0 and 30 are pulsed, -0.001,
\* 30.001 and every other value outside are not pulsed at all (seen through
\* test(), which passes the caller's value straight to pump_for_secs).
C12_InclusiveBounds ==
    (mode = "test" /\ pc = "exit" /\ Started /\ NameExists
       /\ test_args.secs # None) =>
        LET s == test_args.secs[1] IN
        IF s.den > 0 /\ 0 <= s.num /\ s.num <= 30 * s.den
        THEN /\ Cardinality(PulseStarts) = 1
             /\ trace[1].ev \in {"set", "set_err"}
             /\ trace[1].p = Named
             /\ trace[1].v = 1
             /\ \A k \in PulseSleeps : trace[k].v * s.den = s.num * 1000
             /\ result = "ok" =>
                   /\ Len(trace) = 3
                   /\ trace[1].ev = "set"
                   /\ trace[2].ev = "sleep"
                   /\ trace[3] = Ev("set", Named, 0)
        ELSE /\ PulseStarts = {}
             /\ PulseSleeps = {}
             /\ Writes = {}
             /\ \A j \in DOMAIN level : level[j] = 0

\* test A 30: the upper boundary value was pulsed, for 30 s
C12_Witness ==
    /\ mode = "test"
    /\ pc = "exit"
    /\ result = "ok"
    /\ test_args = [pump |-> "A", secs |-> Some(Secs(30, 1))]
    /\ trace = << Ev("set", 1, 1), Ev("sleep", 1, 30000), Ev("set", 1, 0) >>

\* C13: after each 1 s sleep of the wait loop, with t the previous reading
\* and the new reading now', the scheduler goes back to computing the
\* trigger, without watering and without taking the reading, exactly when
\* |now' - (t + 1 s)| > 10 s; with an error of at most 10 s (exactly 10 s
\* included) it keeps the trigger, takes t = now' and stays in the wait loop.
C13_JumpThreshold ==
    [][(mode = "run" /\ pc = "waiting" /\ t < watering_date_time) =>
          LET err == now' - (t + 1000) IN
          /\ level' = level
          /\ trace' = trace
          /\ lastT' = lastT
          /\ IF err > 10000 \/ err < -10000
             THEN /\ pc' = "compute"
                  /\ t' = t
             ELSE /\ pc' = "waiting"
                  /\ t' = now'
                  /\ watering_date_time' = watering_date_time]_vars

\* a step with an error of exactly 10 s was accepted 2 s before the trigger
C13_Witness ==
    /\ mode = "run"
    /\ pc = "waiting"
    /\ lastT = 0
    /\ t = now
    /\ t = watering_date_time + 9000

\* the error of create_pulse reaches the caller: run() logs it for the pump,
\* test() returns it
ErrorReturned ==
    IF mode = "run"
    THEN /\ pc' = "pause"
         /\ trace'[Len(trace')] = Ev("warn_fail", idx, 0)
    ELSE /\ pc' = "exit"
         /\ result' = "err"

\* C14: create_pulse writes 1, blocks for the duration, then writes 0, in
\* that order; a failed write of 1 is returned as an error, is followed by no
\* sleep and no write of 0, and leaves the line low; a failed write of 0 is
\* returned as an error; after a pulse that returns success the line is at
\* level 0.
C14_PulseProtocol ==
    [][/\ pc = "set_high" =>
             \/ /\ pc' = "hold"
                /\ trace' = Append(trace, Ev("set", idx, 1))
             \/ /\ ErrorReturned
                /\ \A k \in (Len(trace) + 1)..Len(trace') :
                      \/ trace'[k] = Ev("set_err", idx, 1)
                      \/ trace'[k] = Ev("warn_fail", idx, 0)
                /\ level'[idx] = 0
       /\ pc = "hold" =>
             /\ pc' = "set_low"
             /\ trace' = Append(trace, Ev("sleep", idx, duration))
             /\ level' = level
       /\ pc = "set_low" =>
             \/ /\ pc' = IF mode = "run" THEN "pause" ELSE "exit"
                /\ mode = "test" => result' = "ok"
                /\ trace' = Append(trace, Ev("set", idx, 0))
                /\ level'[idx] = 0
             \/ ErrorReturned]_vars

\* C15: for a pump whose pin was created with enable = false, every write
\* and every pulse is accepted and succeeds (no failed write, no failed
\* watering, test() returns success for an in-range or out-of-range
\* duration) and the line never leaves its level, in run and in test mode.
C15_DisabledPin ==
    \A i \in 1..Len(pumps) :
        ~pumps[i].enable =>
            /\ level[i] = 0
            /\ \A k \in 1..Len(trace) :
                   trace[k].p = i => trace[k].ev \notin {"set_err", "warn_fail"}
            /\ (pc \in {"hold", "set_low"} /\ idx = i) =>
                   trace[Len(trace) - (IF pc = "hold" THEN 0 ELSE 1)]
                       = Ev("set", i, 1)
            /\ (mode = "test" /\ pc = "exit" /\ Started /\ NameExists
                  /\ Named = i) => result = "ok"

\* the write of 1 on the disabled pin of pump B was accepted, the pulse is
\* being held and the line has not moved
C15_Witness ==
    /\ mode = "run"
    /\ pc = "set_low"
    /\ idx = 2
    /\ ~pumps[2].enable
    /\ level[2] = 0
    /\ trace[Len(trace)] = Ev("sleep", 2, 30000)

\* C16: water() changes no pump parameter and keeps no state between calls:
\* in every cycle the pulse of a pump is started with the duration
\* ml_per_day / ml_per_s of its configuration and held for that duration, so
\* two calls on the same pump give two pulses of equal duration.
C16_Idempotence ==
    [][(mode = "run" /\ Started) =>
          /\ pumps' = pumps
          /\ config' = config
          /\ \A i \in 1..Len(pumps) :
                /\ pumps[i].ml_per_day = config[i].ml_per_day
                /\ pumps[i].ml_per_s = config[i].ml_per_s
          /\ (pc = "water" /\ idx <= Len(pumps) /\ InRangePump(config[idx])) =>
                /\ pc' = "set_high"
                /\ duration' * config[idx].ml_per_s
                      = config[idx].ml_per_day * 1000
          /\ pc = "hold" =>
                /\ duration * config[idx].ml_per_s
                      = config[idx].ml_per_day * 1000
                /\ trace' = Append(trace, Ev("sleep", idx, duration))]_vars

\* the second cycle (next day): pump A has been held for 20 s again
C16_Witness ==
    /\ mode = "run"
    /\ lastT = Base + DefaultStartTime + MsPerDay
    /\ pc = "set_low"
    /\ idx = 1
    /\ trace[Len(trace)] = Ev("sleep", 1, 20000)

\* C17: test() with a duration outside [0, 30] writes no pin, sleeps for no
\* pulse and still returns success; test() without a duration pulses the
\* named pump once for the default 1.0 s.
C17_TestRangeAndDefault ==
    (mode = "test" /\ pc = "exit" /\ Started /\ NameExists) =>
        IF test_args.secs = None
        THEN /\ Cardinality(PulseStarts) = 1
             /\ \A k \in 1..Len(trace) : trace[k].p = Named
             /\ \A k \in PulseSleeps : trace[k].v = 1000
             /\ result = "ok" =>
                   trace = << Ev("set", Named, 1), Ev("sleep", Named, 1000),
                              Ev("set", Named, 0) >>
             /\ result = "err" => trace[Len(trace)].ev = "set_err"
        ELSE LET s == test_args.secs[1] IN
             (s.num < 0 \/ s.num > 30 * s.den) =>
                 /\ result = "ok"
                 /\ trace = << Ev("warn_range", Named, 0) >>
                 /\ \A j \in DOMAIN level : level[j] = 0

\* test A without a duration: one pulse of 1 s was made
C17_Witness ==
    /\ mode = "test"
    /\ pc = "exit"
    /\ result = "ok"
    /\ test_args = [pump |-> "A", secs |-> None]
    /\ trace = << Ev("set", 1, 1), Ev("sleep", 1, 1000), Ev("set", 1, 0) >>

\* C18: whenever the wait loop ends and the watering for trigger T starts,
\* the last clock reading t satisfies T <= t < T + 11 s.
C18_FiringWindow ==
    [][(mode = "run" /\ pc = "waiting" /\ pc' = "water") =>
          /\ watering_date_time <= t
          /\ t < watering_date_time + 11000
          /\ watering_date_time' = watering_date_time
          /\ t' = t]_vars

\* the latest start the model's clock allows: a reading 10 s past T, after
\* a step of 11 s from 1 s before T
C18_Witness ==
    /\ mode = "run"
    /\ pc = "water"
    /\ idx = 1
    /\ trace = <<>>
    /\ t = watering_date_time + 10000

\* C19: after a watering cycle has fired for trigger T (lastT), the next
\* cycle fires for a trigger of at least T + 1 day, when no sleep, in the
\* wait loop or in the watering phase, sees the clock set back by more than
\* 10 s.
C19_NoDoubleWatering ==
    [][(mode = "run" /\ pc = "waiting" /\ pc' = "water" /\ lastT # 0) =>
          watering_date_time >= lastT + MsPerDay]_vars

\* no write on a line has failed: the hardware of this behaviour works
NoWriteFails == ~env.faults

\* C20: in run mode, while the scheduler computes the trigger or waits for
\* it, every pump's line is at level 0, provided no hardware write has
\* failed.
C20_LowOutsideWatering ==
    (mode = "run" /\ NoWriteFails /\ pc \in {"compute", "waiting"}) =>
        \A i \in DOMAIN level : level[i] = 0

\* a cycle with pulses is over and the scheduler waits again, all lines low
C20_Witness ==
    /\ mode = "run"
    /\ NoWriteFails
    /\ pc = "waiting"
    /\ lastT # 0
    /\ t < watering_date_time
    /\ \A i \in DOMAIN level : level[i] = 0

====
